---- MODULE Spec2Model ----
\* Model of stock_pattern_analyzer/search_index.py: the three index backends
\* FastIndex (faiss.IndexFlatL2), MemoryEfficientIndex (faiss.IndexIVFPQ) and
\* cKDTreeIndex (scipy cKDTree) with their create / query / load / serialize
\* methods, one file on disk, and the caller's two references: `self` (an
\* instance the caller constructed) and `loaded` (what the last load returned).
EXTENDS Integers, Sequences, FiniteSets

\* ---------------------------------------------------------------- bounds ---
\* Rows of the small datasets (the exact backends are built on these).
MaxN == 2
\* Largest k passed to query (k > N happens for the small datasets).
MaxK == 2
\* Coordinates of the data and of the queries are 0 .. CoordMod - 1.
CoordMod == 3
\* Number of vectors in a batch query is 1 .. MaxBatch.
MaxBatch == 2

\* --------------------------------------------------- program constants ---
\* faiss.IndexIVFPQ(quantizer, d, 100, m, 8): number of coarse cells, bits per code.
nlist == 100
nbits == 8

Backends == {"cKDTreeIndex", "FastIndex", "MemoryEfficientIndex"}
Refs == {"self", "loaded"}
file_path == "index.bin"

\* ------------------------------------------------------------- datasets ---
\* A dataset X (an N x D matrix) is named by [n, d, g]; its entries are
\* Cell(X, i, j), row i in 1..n, column j in 1..d.  g = 0 gives N identical
\* rows (every distance ties), g > 0 gives rows that repeat with period CoordMod.
Cell(X, i, j) == ((i - 1) * X.g * j) % CoordMod

\* k-means in faiss refuses fewer training points than centroids: the coarse
\* quantizer needs nlist points and every sub-quantizer 2^nbits points.
ksub == 2 ^ nbits
MinTrainPoints == IF nlist > ksub THEN nlist ELSE ksub

SmallData == [n : 1 .. MaxN, d : {2}, g : {0, 1}]
BigData == [n : {MinTrainPoints}, d : {6, 7, 10, 20}, g : {1}]
Datasets == SmallData \cup BigData

\* A query argument q: ndim = 1 is a single D-vector, ndim = 2 a batch; the
\* vector with seed c has entries QCell(c, j).  Its dimension is that of the
\* index it is passed to.
QCell(c, j) == (c * j) % CoordMod
QSeeds == 0 .. 1
Queries == [ndim : {1}, c : [1 .. 1 -> QSeeds]]
             \cup [ndim : {2}, c : UNION {[1 .. b -> QSeeds] : b \in 1 .. MaxBatch}]

\* -------------------------------------------------------------- numbers ---
\* A distance is a non-negative real, kept as its square so that a square
\* root stays exact: Num(v) is the integer v, Sqrt(v) the root of v.
Num(v) == [kind |-> "num", sq |-> v * v]
Sqrt(v) == [kind |-> "num", sq |-> v]
FLT_MAX == [kind |-> "FLT_MAX", sq |-> 0]
inf == [kind |-> "inf", sq |-> 0]

\* ------------------------------------------------------- Python values ---
None == [type |-> "NoneType"]
NoError == "ok"

RECURSIVE SqSum(_, _, _, _)
SqSum(X, i, c, j) ==
    IF j = 0 THEN 0
    ELSE (Cell(X, i, j) - QCell(c, j)) * (Cell(X, i, j) - QCell(c, j))
             + SqSum(X, i, c, j - 1)

\* Squared Euclidean distance from the query vector with seed c to row i of X.
SqL2(X, i, c) == SqSum(X, i, c, X.d)

\* Row a is ranked before row b: smaller distance, ties by lower row index.
Before(X, c, a, b) ==
    \/ SqL2(X, a, c) < SqL2(X, b, c)
    \/ SqL2(X, a, c) = SqL2(X, b, c) /\ a < b

\* The best-ranked row among the rows lo .. hi that are in S (0: none),
\* found by halving the range.
RECURSIVE Best(_, _, _, _, _)
Best(X, c, S, lo, hi) ==
    IF lo > hi THEN 0
    ELSE IF lo = hi THEN (IF lo \in S THEN lo ELSE 0)
    ELSE LET mid == (lo + hi) \div 2
             a == Best(X, c, S, lo, mid)
             b == Best(X, c, S, mid + 1, hi)
         IN  IF a = 0 THEN b
             ELSE IF b = 0 THEN a
             ELSE IF Before(X, c, b, a) THEN b ELSE a

\* The rows of S in rank order, at most k of them.
RECURSIVE Ranked(_, _, _, _)
Ranked(X, c, S, k) ==
    IF k = 0 \/ S = {} THEN <<>>
    ELSE LET a == Best(X, c, S, 1, X.n)
         IN  <<a>> \o Ranked(X, c, S \ {a}, k - 1)

\* An array as numpy returns it: its shape and its entries, one row of
\* entries per query vector it covers.
Array(shape, data) == [shape |-> shape, data |-> data]

\* ---------------------------------------------------------------- faiss ---
NoRows(d) == [n |-> 0, d |-> d, g |-> 0]

\* faiss.IndexFlatL2(d): an empty exact index.
IndexFlatL2(d) == [type |-> "IndexFlatL2", d |-> d, ntotal |-> 0, xb |-> NoRows(d)]

\* IndexFlatL2.add(X) on the empty index: the rows are stored verbatim.
IndexFlat_add(ix, X) == [ix EXCEPT !.ntotal = X.n, !.xb = X]

\* faiss.IndexIVFPQ(quantizer, d, nlist, m, nbits): untrained, empty.
IndexIVFPQ(quantizer, d, nl, m, nb) ==
    [type |-> "IndexIVFPQ", d |-> d, nlist |-> nl, m |-> m, nbits |-> nb,
     quantizer |-> quantizer, is_trained |-> FALSE, ntotal |-> 0, xb |-> NoRows(d)]

\* IndexIVFPQ.train(X): k-means of the coarse quantizer (nlist centroids drawn
\* from X, added to the quantizer), then of the sub-quantizers (2^nbits centroids each);
\* k-means raises when it gets fewer points than centroids.
IndexIVFPQ_train(ix, X) ==
    IF X.n < ix.nlist
    THEN [err |-> "RuntimeError", index |-> ix]
    ELSE LET coarse == [ix EXCEPT !.quantizer.ntotal = ix.nlist,
                                  !.quantizer.xb = [n |-> ix.nlist, d |-> ix.d, g |-> X.g]]
         IN  IF X.n < 2 ^ ix.nbits
             THEN [err |-> "RuntimeError", index |-> coarse]
             ELSE [err |-> NoError, index |-> [coarse EXCEPT !.is_trained = TRUE]]

\* IndexIVFPQ.add(X) on a trained index: the rows are encoded and filed in
\* their coarse cells.
IndexIVFPQ_add(ix, X) == [ix EXCEPT !.ntotal = X.n, !.xb = X]

\* The rows an IVFPQ search scans for the query vector c (nprobe = 1: the one
\* coarse cell of c).  The cell of a vector is taken to be its first entry.
Probed(X, c) == {i \in 1 .. X.n : Cell(X, i, 1) = QCell(c, 1)}

\* The rows of X a search for the query vector c ranks: all of them, or the
\* probed cell only.
Scanned(X, c, probe) == IF probe THEN Probed(X, c) ELSE 1 .. X.n

\* Ranked, tabulated once for the datasets and query vectors of the model: the
\* MaxK best rows of every scan.
RankTable ==
    {<<X, c, probe, Ranked(X, c, Scanned(X, c, probe), MaxK)>> :
        X \in Datasets, c \in QSeeds, probe \in BOOLEAN}

Prefix(s, k) == SubSeq(s, 1, IF k < Len(s) THEN k ELSE Len(s))

\* The k best rows of a scan of X for the query vector c, best first: read
\* from the table where it has them, and computed otherwise.
TopRows(X, c, probe, k) ==
    IF X \in Datasets /\ c \in QSeeds /\ k <= MaxK
    THEN Prefix((CHOOSE e \in RankTable : e[1] = X /\ e[2] = c /\ e[3] = probe)[4], k)
    ELSE Ranked(X, c, Scanned(X, c, probe), k)

\* The rows a search of index ix returns for the query vector c, best first.
Hits(ix, c, k) == TopRows(ix.xb, c, ix.type = "IndexIVFPQ", k)

\* One row of a faiss search result, for the query vector c: squared L2
\* distances and row labels, best first; where fewer than k rows are found the
\* label is -1 and the distance FLT_MAX.
faiss_row(ix, c, k) ==
    LET hits == Hits(ix, c, k)
    IN  [D |-> [s \in 1 .. k |->
                  IF s <= Len(hits) THEN Num(SqL2(ix.xb, hits[s], c)) ELSE FLT_MAX],
         I |-> [s \in 1 .. k |-> IF s <= Len(hits) THEN hits[s] - 1 ELSE -1]]

\* Index.search(q, k) of faiss: a (Q, k) matrix of distances and one of labels.
\* q must be a 2-d array.
faiss_search(ix, q, k) ==
    IF q.ndim # 2
    THEN [err |-> "ValueError", D |-> None, I |-> None]
    ELSE LET Q == Len(q.c)
         IN  [err |-> NoError,
              D |-> Array(<<Q, k>>, [t \in 1 .. Q |-> faiss_row(ix, q.c[t], k).D]),
              I |-> Array(<<Q, k>>, [t \in 1 .. Q |-> faiss_row(ix, q.c[t], k).I])]

\* ---------------------------------------------------------------- scipy ---
\* cKDTree(data=X): the tree keeps the data, its row count n and dimension m.
cKDTree(X) == [type |-> "cKDTree", data |-> X, n |-> X.n, m |-> X.d]

\* One row of a cKDTree query result, for the query vector c: Euclidean
\* distances and row indices, best first; a missing neighbour has distance inf
\* and index n.
cKDTree_row(tree, c, k) ==
    LET hits == TopRows(tree.data, c, FALSE, k)
    IN  [D |-> [s \in 1 .. k |->
                  IF s <= Len(hits) THEN Sqrt(SqL2(tree.data, hits[s], c)) ELSE inf],
         I |-> [s \in 1 .. k |-> IF s <= Len(hits) THEN hits[s] - 1 ELSE tree.n]]

\* cKDTree.query(x=q, k=k): arrays of the shape of q without its last axis,
\* plus an axis of length k when k > 1.
cKDTree_query(tree, q, k) ==
    LET Q == Len(q.c)
        shape == (IF q.ndim = 2 THEN <<Q>> ELSE <<>>) \o (IF k > 1 THEN <<k>> ELSE <<>>)
    IN  [err |-> NoError,
         D |-> Array(shape, [t \in 1 .. Q |-> cKDTree_row(tree, q.c[t], k).D]),
         I |-> Array(shape, [t \in 1 .. Q |-> cKDTree_row(tree, q.c[t], k).I])]

\* ---------------------------------------------------- bytes on disk ---
Absent == [format |-> "absent"]
EmptyFile == [format |-> "empty"]

\* faiss.write_index(index, fname): the file is opened for writing, then a
\* four-character tag of the index type and the index's fields are written.
\* A null index is written as the tag "null" by the builds that know it.
write_index(ix) ==
    IF ix = None
    THEN [format |-> "faiss", fourcc |-> "null"]
    ELSE IF ix.type = "IndexFlatL2"
    THEN [format |-> "faiss", fourcc |-> "IxF2", d |-> ix.d, ntotal |-> ix.ntotal,
          xb |-> ix.xb]
    ELSE [format |-> "faiss", fourcc |-> "IwPQ", d |-> ix.d, ntotal |-> ix.ntotal,
          is_trained |-> ix.is_trained, nlist |-> ix.nlist,
          quantizer |-> [fourcc |-> "IxF2", d |-> ix.quantizer.d,
                         ntotal |-> ix.quantizer.ntotal, xb |-> ix.quantizer.xb],
          pq |-> <<ix.d, ix.m, ix.nbits>>, codes |-> ix.xb]

\* faiss.read_index(fname): raises on a missing, empty or foreign file, else
\* rebuilds the index the tag names.
read_index(bytes) ==
    IF bytes.format # "faiss"
    THEN [err |-> "RuntimeError", index |-> None]
    ELSE IF bytes.fourcc = "null"
    THEN [err |-> NoError, index |-> None]
    ELSE IF bytes.fourcc = "IxF2"
    THEN [err |-> NoError,
          index |-> [type |-> "IndexFlatL2", d |-> bytes.d, ntotal |-> bytes.ntotal,
                     xb |-> bytes.xb]]
    ELSE [err |-> NoError,
          index |-> [type |-> "IndexIVFPQ", d |-> bytes.d, nlist |-> bytes.nlist,
                     m |-> bytes.pq[2], nbits |-> bytes.pq[3],
                     quantizer |-> [type |-> "IndexFlatL2", d |-> bytes.quantizer.d,
                                    ntotal |-> bytes.quantizer.ntotal,
                                    xb |-> bytes.quantizer.xb],
                     is_trained |-> bytes.is_trained, ntotal |-> bytes.ntotal,
                     xb |-> bytes.codes]]

\* pickle.dump(value, f) of None or of a cKDTree (its data and sizes).
pickle_dump(v) ==
    IF v = None
    THEN [format |-> "pickle", global |-> "None", state |-> <<>>]
    ELSE [format |-> "pickle", global |-> "cKDTree", state |-> <<v.data, v.n, v.m>>]

\* pickle.load(f): raises on a file that is no pickle.
pickle_load(bytes) ==
    IF bytes.format = "absent" THEN [err |-> "FileNotFoundError", value |-> None]
    ELSE IF bytes.format = "empty" THEN [err |-> "EOFError", value |-> None]
    ELSE IF bytes.format # "pickle" THEN [err |-> "UnpicklingError", value |-> None]
    ELSE IF bytes.global = "None" THEN [err |-> NoError, value |-> None]
    ELSE [err |-> NoError,
          value |-> [type |-> "cKDTree", data |-> bytes.state[1], n |-> bytes.state[2],
                     m |-> bytes.state[3]]]

\* ---------------------------------------------------------------- state ---
VARIABLES
    obj,     \* obj[r]: the value the caller's reference r is bound to
    files,   \* files[path]: the bytes stored at path
    out      \* the last call: what was called, with what, and how it ended

vars == <<obj, files, out>>

Unbound == [type |-> "unbound"]
NoQuery == [ndim |-> 0, c |-> <<>>]

\* _BaseIndex.__init__: a new instance of class cls has no index.
Instance(cls) == [type |-> cls, index |-> None]

Call(op, cls, ref, err, X, q, k, ret, calls) ==
    [op |-> op, cls |-> cls, ref |-> ref, err |-> err, X |-> X, q |-> q, k |-> k,
     ret |-> ret, calls |-> calls]

\* No call is pending: the caller holds no result.
Idle == Call("", "", "", NoError, NoRows(0), NoQuery, 0, None, <<>>)

Init ==
    /\ obj \in {[self |-> Instance(b), loaded |-> Unbound] : b \in Backends}
    /\ files = [p \in {file_path} |-> Absent]
    /\ out = Idle

\* The caller is done with the result of its last call and lets go of it.
Return ==
    /\ out # Idle
    /\ out' = Idle
    /\ UNCHANGED <<obj, files>>

\* --------------------------------------------------------------- create ---
\* FastIndex.create(X): the index is assigned, then filled.
FastIndex_create(X) ==
    /\ out = Idle
    /\ obj["self"].type = "FastIndex"
    /\ X \in SmallData
    /\ LET index == IndexFlatL2(X.d)
       IN  obj' = [obj EXCEPT !["self"].index = IndexFlat_add(index, X)]
    /\ out' = Call("create", "FastIndex", "self", NoError, X, NoQuery, 0, None,
                   <<"IndexFlatL2", "add">>)
    /\ UNCHANGED files

\* ChooseM with the candidates tried smallest first.
ChooseM_smallest_first(d) ==
    IF d % 2 = 0 THEN 2
    ELSE IF d % 4 = 0 THEN 4
    ELSE IF d % 5 = 0 THEN 5
    ELSE 0

\* The choice of m in MemoryEfficientIndex.create; 0 stands for the branch
\* that raises.
ChooseM(d) ==
    IF d % 4 = 0 THEN 4
    ELSE IF d % 5 = 0 THEN 5
    ELSE IF d % 2 = 0 THEN 2
    ELSE 0

\* MemoryEfficientIndex_build with the quantizer constructed and assigned
\* before m is chosen.
MemoryEfficientIndex_build_late_check(old, X) ==
    LET d == X.d
        m == ChooseM(d)
        quantizer == IndexFlatL2(d)
    IN  IF m = 0
        THEN [err |-> "ValueError", index |-> quantizer, calls |-> <<"IndexFlatL2">>]
        ELSE LET index == IndexIVFPQ(quantizer, d, nlist, m, nbits)
                 trained == IndexIVFPQ_train(index, X)
             IN  IF trained.err # NoError
                 THEN [err |-> trained.err, index |-> trained.index,
                       calls |-> <<"IndexFlatL2", "IndexIVFPQ", "train">>]
                 ELSE [err |-> NoError, index |-> IndexIVFPQ_add(trained.index, X),
                       calls |-> <<"IndexFlatL2", "IndexIVFPQ", "train", "add">>]

\* MemoryEfficientIndex.create(X) on an instance whose index is old: how the
\* call ends, the index it leaves and the faiss calls it made.
MemoryEfficientIndex_build(old, X) ==
    LET d == X.d
        m == ChooseM(d)
    IN  IF m = 0
        THEN [err |-> "ValueError", index |-> old, calls |-> <<>>]
        ELSE LET quantizer == IndexFlatL2(d)
                 index == IndexIVFPQ(quantizer, d, nlist, m, nbits)
                 trained == IndexIVFPQ_train(index, X)
             IN  IF trained.err # NoError
                 THEN [err |-> trained.err, index |-> trained.index,
                       calls |-> <<"IndexFlatL2", "IndexIVFPQ", "train">>]
                 ELSE [err |-> NoError, index |-> IndexIVFPQ_add(trained.index, X),
                       calls |-> <<"IndexFlatL2", "IndexIVFPQ", "train", "add">>]

MemoryEfficientIndex_create(X) ==
    /\ out = Idle
    /\ obj["self"].type = "MemoryEfficientIndex"
    /\ X \in Datasets
    /\ LET b == MemoryEfficientIndex_build(obj["self"].index, X)
       IN  /\ obj' = [obj EXCEPT !["self"].index = b.index]
           /\ out' = Call("create", "MemoryEfficientIndex", "self", b.err, X, NoQuery, 0,
                          None, b.calls)
    /\ UNCHANGED files

\* cKDTreeIndex.create(X): the finished tree is assigned.
cKDTreeIndex_create(X) ==
    /\ out = Idle
    /\ obj["self"].type = "cKDTreeIndex"
    /\ X \in SmallData
    /\ obj' = [obj EXCEPT !["self"].index = cKDTree(X)]
    /\ out' = Call("create", "cKDTreeIndex", "self", NoError, X, NoQuery, 0, None,
                   <<"cKDTree">>)
    /\ UNCHANGED files

\* ---------------------------------------------------------------- query ---
\* distances[0] / indices[0]: the first row of a matrix.
Row0(A) == Array(Tail(A.shape), <<A.data[1]>>)

\* FastIndex.query(q, k) on an instance whose index is `index`.
FastIndex_query_result(index, q, k) ==
    IF index = None
    THEN [err |-> "AttributeError", ret |-> None]
    ELSE LET found == faiss_search(index, q, k)
         IN  IF found.err # NoError
             THEN [err |-> found.err, ret |-> None]
             ELSE [err |-> NoError,
                   ret |-> [distances |-> Row0(found.D), indices |-> Row0(found.I)]]

\* MemoryEfficientIndex.query(q, k) on an instance whose index is `index`.
MemoryEfficientIndex_query_result(index, q, k) ==
    IF index = None
    THEN [err |-> "AttributeError", ret |-> None]
    ELSE LET found == faiss_search(index, q, k)
         IN  IF found.err # NoError
             THEN [err |-> found.err, ret |-> None]
             ELSE [err |-> NoError,
                   ret |-> [distances |-> Row0(found.D), indices |-> Row0(found.I)]]

\* cKDTreeIndex.query(q, k) on an instance whose index is `index`.
cKDTreeIndex_query_result(index, q, k) ==
    IF index = None
    THEN [err |-> "AttributeError", ret |-> None]
    ELSE LET found == cKDTree_query(index, q, k)
         IN  [err |-> NoError, ret |-> [distances |-> found.D, indices |-> found.I]]

\* value.query(q, k) for whatever value a reference is bound to; calling a
\* method on None raises AttributeError.
query_result(value, q, k) ==
    IF value.type = "FastIndex" THEN FastIndex_query_result(value.index, q, k)
    ELSE IF value.type = "MemoryEfficientIndex"
    THEN MemoryEfficientIndex_query_result(value.index, q, k)
    ELSE IF value.type = "cKDTreeIndex" THEN cKDTreeIndex_query_result(value.index, q, k)
    ELSE [err |-> "AttributeError", ret |-> None]

FastIndex_query(r, q, k) ==
    /\ out = Idle
    /\ obj[r].type = "FastIndex"
    /\ LET res == FastIndex_query_result(obj[r].index, q, k)
       IN  out' = Call("query", "FastIndex", r, res.err, NoRows(0), q, k, res.ret, <<>>)
    /\ UNCHANGED <<obj, files>>

\* MemoryEfficientIndex_query that releases the index once it has searched it.
MemoryEfficientIndex_query_releasing(r, q, k) ==
    /\ out = Idle
    /\ obj[r].type = "MemoryEfficientIndex"
    /\ LET res == MemoryEfficientIndex_query_result(obj[r].index, q, k)
       IN  out' = Call("query", "MemoryEfficientIndex", r, res.err, NoRows(0), q, k,
                       res.ret, <<>>)
    /\ obj' = [obj EXCEPT ![r].index = None]
    /\ UNCHANGED files

MemoryEfficientIndex_query(r, q, k) ==
    /\ out = Idle
    /\ obj[r].type = "MemoryEfficientIndex"
    /\ LET res == MemoryEfficientIndex_query_result(obj[r].index, q, k)
       IN  out' = Call("query", "MemoryEfficientIndex", r, res.err, NoRows(0), q, k,
                       res.ret, <<>>)
    /\ UNCHANGED <<obj, files>>

cKDTreeIndex_query(r, q, k) ==
    /\ out = Idle
    /\ obj[r].type = "cKDTreeIndex"
    /\ LET res == cKDTreeIndex_query_result(obj[r].index, q, k)
       IN  out' = Call("query", "cKDTreeIndex", r, res.err, NoRows(0), q, k, res.ret,
                       <<>>)
    /\ UNCHANGED <<obj, files>>

\* query called on the None that a load returned.
NoneType_query(r, q, k) ==
    /\ out = Idle
    /\ obj[r] = None
    /\ out' = Call("query", "NoneType", r, "AttributeError", NoRows(0), q, k, None, <<>>)
    /\ UNCHANGED <<obj, files>>

\* ------------------------------------------------------------ serialize ---
\* The ways faiss.write_index(index, path) can end, with the bytes then at
\* path (old: the bytes there before).  Handed None, the wrapper either
\* rejects the argument, or the file is opened and then the null index is
\* refused, or the null index is written, depending on the faiss build.
faiss_write(index, old) ==
    IF index = None
    THEN {[err |-> "TypeError", bytes |-> old],
          [err |-> "RuntimeError", bytes |-> EmptyFile],
          [err |-> NoError, bytes |-> write_index(None)]}
    ELSE {[err |-> NoError, bytes |-> write_index(index)]}

FastIndex_serialize(path) ==
    /\ out = Idle
    /\ obj["self"].type = "FastIndex"
    /\ \E w \in faiss_write(obj["self"].index, files[path]) :
          /\ files' = [files EXCEPT ![path] = w.bytes]
          /\ out' = Call("serialize", "FastIndex", "self", w.err, NoRows(0), NoQuery, 0,
                         None, <<"write_index">>)
    /\ UNCHANGED obj

MemoryEfficientIndex_serialize(path) ==
    /\ out = Idle
    /\ obj["self"].type = "MemoryEfficientIndex"
    /\ \E w \in faiss_write(obj["self"].index, files[path]) :
          /\ files' = [files EXCEPT ![path] = w.bytes]
          /\ out' = Call("serialize", "MemoryEfficientIndex", "self", w.err, NoRows(0),
                         NoQuery, 0, None, <<"write_index">>)
    /\ UNCHANGED obj

\* cKDTreeIndex.serialize(path): open(path, "wb"), then pickle.dump(self.index, f).
cKDTreeIndex_serialize(path) ==
    /\ out = Idle
    /\ obj["self"].type = "cKDTreeIndex"
    /\ files' = [files EXCEPT ![path] = pickle_dump(obj["self"].index)]
    /\ out' = Call("serialize", "cKDTreeIndex", "self", NoError, NoRows(0), NoQuery, 0,
                   None, <<"open", "pickle.dump">>)
    /\ UNCHANGED obj

\* ----------------------------------------------------------------- load ---
\* What FastIndex.load(path) returns: the index read is not bound to anything
\* and the method has no return statement.
FastIndex_load_result(bytes) ==
    LET read == read_index(bytes)
    IN  IF read.err # NoError
        THEN [err |-> read.err, ret |-> None]
        ELSE [err |-> NoError, ret |-> None]

\* What MemoryEfficientIndex.load(path) returns.
MemoryEfficientIndex_load_result(bytes) ==
    LET read == read_index(bytes)
    IN  IF read.err # NoError
        THEN [err |-> read.err, ret |-> None]
        ELSE [err |-> NoError,
              ret |-> [Instance("MemoryEfficientIndex") EXCEPT !.index = read.index]]

\* What cKDTreeIndex.load(path) returns.
cKDTreeIndex_load_result(bytes) ==
    LET read == pickle_load(bytes)
    IN  IF read.err # NoError
        THEN [err |-> read.err, ret |-> None]
        ELSE [err |-> NoError,
              ret |-> [Instance("cKDTreeIndex") EXCEPT !.index = read.value]]

\* loaded = cls.load(path): the caller's `loaded` is bound to what the call
\* returns; when the call raises, nothing is bound.
Bound(res) == IF res.err = NoError THEN [obj EXCEPT !["loaded"] = res.ret] ELSE obj

FastIndex_load(path) ==
    /\ out = Idle
    /\ LET res == FastIndex_load_result(files[path])
       IN  /\ obj' = Bound(res)
           /\ out' = Call("load", "FastIndex", "loaded", res.err, NoRows(0), NoQuery, 0,
                          res.ret, <<"read_index">>)
    /\ UNCHANGED files

MemoryEfficientIndex_load(path) ==
    /\ out = Idle
    /\ LET res == MemoryEfficientIndex_load_result(files[path])
       IN  /\ obj' = Bound(res)
           /\ out' = Call("load", "MemoryEfficientIndex", "loaded", res.err, NoRows(0),
                          NoQuery, 0, res.ret, <<"read_index">>)
    /\ UNCHANGED files

cKDTreeIndex_load(path) ==
    /\ out = Idle
    /\ LET res == cKDTreeIndex_load_result(files[path])
       IN  /\ obj' = Bound(res)
           /\ out' = Call("load", "cKDTreeIndex", "loaded", res.err, NoRows(0), NoQuery,
                          0, res.ret, <<"open", "pickle.load">>)
    /\ UNCHANGED files

\* ----------------------------------------------------------------- next ---
Next ==
    \/ Return
    \/ \E X \in Datasets : FastIndex_create(X)
    \/ \E X \in Datasets : MemoryEfficientIndex_create(X)
    \/ \E X \in Datasets : cKDTreeIndex_create(X)
    \/ \E r \in Refs, q \in Queries, k \in 1 .. MaxK : FastIndex_query(r, q, k)
    \/ \E r \in Refs, q \in Queries, k \in 1 .. MaxK : MemoryEfficientIndex_query(r, q, k)
    \/ \E r \in Refs, q \in Queries, k \in 1 .. MaxK : cKDTreeIndex_query(r, q, k)
    \/ \E r \in Refs, q \in Queries, k \in 1 .. MaxK : NoneType_query(r, q, k)
    \/ FastIndex_serialize(file_path)
    \/ MemoryEfficientIndex_serialize(file_path)
    \/ cKDTreeIndex_serialize(file_path)
    \/ FastIndex_load(file_path)
    \/ MemoryEfficientIndex_load(file_path)
    \/ cKDTreeIndex_load(file_path)

Spec == Init /\ [][Next]_vars

\* --------------------------------------------------------------- claims ---
\* An index that create has finished: rows added, and trained where the type
\* needs training.
Complete(ix) ==
    /\ ix # None
    /\ \/ ix.type = "cKDTree"
       \/ ix.type = "IndexFlatL2" /\ ix.ntotal > 0
       \/ ix.type = "IndexIVFPQ" /\ ix.is_trained /\ ix.ntotal > 0

\* The bytes serialize writes for a built instance.
Serialized(o) ==
    IF o.type = "cKDTreeIndex" THEN pickle_dump(o.index) ELSE write_index(o.index)

\* What cls.load returns for the bytes.
load_result(cls, bytes) ==
    IF cls = "FastIndex" THEN FastIndex_load_result(bytes)
    ELSE IF cls = "MemoryEfficientIndex" THEN MemoryEfficientIndex_load_result(bytes)
    ELSE cKDTreeIndex_load_result(bytes)

\* The index of the instance the reference r is bound to (None when r is
\* bound to no instance).
IndexOf(r) == IF obj[r].type \in Backends THEN obj[r].index ELSE None

\* The file holds what serialize wrote for the built instance `self`.
SavedSelf == Complete(obj["self"].index) /\ files[file_path] = Serialized(obj["self"])

\* C1: load(path) on a file written by serialize of a built instance of the
\* same backend returns an instance of that backend whose index is set.
C1_LoadReturnsReadyInstance ==
    (out.op = "load" /\ out.cls = obj["self"].type /\ SavedSelf)
        => /\ out.err = NoError
           /\ out.ret # None
           /\ out.ret.type = out.cls
           /\ out.ret.index # None
           /\ obj["loaded"] = out.ret

\* C2: a query on the instance that load returned for the file serialize wrote
\* ends as the same query on the original instance does.
C2_RoundTrip ==
    (/\ out.op = "query"
     /\ out.ref = "loaded"
     /\ SavedSelf
     /\ obj["loaded"] = load_result(obj["self"].type, files[file_path]).ret)
        => [err |-> out.err, ret |-> out.ret] = query_result(obj["self"], out.q, out.k)

\* The (row index, distance) pairs of a result for one query vector.
Pairs(ret, k) == {<<ret.indices.data[1][s], ret.distances.data[1][s]>> : s \in 1 .. k}

\* C3: FastIndex and cKDTreeIndex built on the same X return the same
\* (row index, distance) pairs for a query vector q and 1 <= k <= N.
C3_ExactBackendsAgree ==
    (/\ out.op = "query"
     /\ out.cls = "FastIndex"
     /\ out.err = NoError
     /\ Len(out.q.c) = 1
     /\ out.k <= IndexOf(out.ref).ntotal)
        => Pairs(out.ret, out.k)
             = Pairs(cKDTreeIndex_query_result(cKDTree(IndexOf(out.ref).xb), out.q,
                                               out.k).ret, out.k)

\* C4: after a create that failed, the instance holds no partially built index.
C4_BuildAllOrNothing ==
    (out.op = "create" /\ out.err # NoError)
        => (obj["self"].index = None \/ Complete(obj["self"].index))

\* The candidates for m, in the order of preference.
Preference == <<4, 5, 2>>
Divisors(d) == {i \in 1 .. Len(Preference) : d % Preference[i] = 0}

\* C5: create of MemoryEfficientIndex on a dimension that none of the
\* candidates divides raises (ValueError, the code's configuration error) before
\* any faiss object is constructed or trained, and leaves the instance and the
\* files as they were.
C5_FailFast ==
    [][(/\ out'.op = "create"
        /\ out'.cls = "MemoryEfficientIndex"
        /\ Divisors(out'.X.d) = {})
           => /\ out'.err = "ValueError"
              /\ out'.calls = <<>>
              /\ obj' = obj
              /\ files' = files]_vars

C5_Witness ==
    /\ out.op = "create"
    /\ out.cls = "MemoryEfficientIndex"
    /\ out.X.d = 7
    /\ out.err = "ValueError"
    /\ Complete(obj["self"].index)
    /\ files[file_path] # Absent

\* C6: query and serialize on an instance that was never built fail and write
\* no file.
C6_UnbuiltCallsFail ==
    [][(/\ out'.op \in {"query", "serialize"}
        /\ out'.ref = "self"
        /\ obj["self"].index = None)
           => /\ out'.err # NoError
              /\ files' = files]_vars

\* C7: when create of MemoryEfficientIndex succeeds, the m of the index divides
\* D and is the first candidate in the order 4, 5, 2 that does (D = 6 gives 2,
\* D = 10 gives 5, D = 20 gives 4).
C7_ChoiceOfM ==
    (out.op = "create" /\ out.cls = "MemoryEfficientIndex" /\ out.err = NoError)
        => LET d == out.X.d
               m == obj["self"].index.m
           IN  /\ d % m = 0
               /\ Divisors(d) # {}
               /\ m = Preference[CHOOSE i \in Divisors(d) : \A j \in Divisors(d) : i <= j]
               /\ (d = 6 => m = 2)
               /\ (d = 10 => m = 5)
               /\ (d = 20 => m = 4)

C7_Witness ==
    /\ out.op = "create"
    /\ out.cls = "MemoryEfficientIndex"
    /\ out.err = NoError
    /\ out.X.d = 20
    /\ obj["self"].index.m = 4
    /\ obj["self"].index.is_trained

Rows(ix) == IF ix.type = "cKDTree" THEN ix.n ELSE ix.ntotal

\* C9: a query with k > N either fails or returns only indices of rows.
C9_OutOfRangeK ==
    (/\ out.op = "query"
     /\ out.err = NoError
     /\ Complete(IndexOf(out.ref))
     /\ out.k > Rows(IndexOf(out.ref)))
        => \A t \in 1 .. Len(out.ret.indices.data) : \A s \in 1 .. out.k :
              out.ret.indices.data[t][s] \in 0 .. Rows(IndexOf(out.ref)) - 1

\* C10: a query with a batch of Q >= 2 vectors returns the neighbours of every
\* vector of the batch.
C10_BatchQuery ==
    (/\ out.op = "query"
     /\ out.q.ndim = 2
     /\ Len(out.q.c) >= 2
     /\ Complete(IndexOf(out.ref)))
        => /\ out.err = NoError
           /\ Len(out.ret.indices.data) = Len(out.q.c)
           /\ Len(out.ret.distances.data) = Len(out.q.c)

====
